---- MODULE Spec2Model ----
(***************************************************************************)
(* Model of the archive builder of src/zipper.go: zipFileOrDir with its    *)
(* worker pool, the shared zip.Writer it writes through, and               *)
(* addFileToZip for the single-file mode; and of zipFolder of src/main.go. *)
(***************************************************************************)
EXTENDS Integers, Sequences, FiniteSets, Bags, TLC

\* ---------------------------------------------------------------- bounds
MaxWorkers == 2
MaxFiles == 2

\* the smallest value of the -threads flag that is explored
MinWorkers == 0 - 1

\* ----------------------------------------------------------- input trees
\* Candidate regular files under the source root, as path segments below
\* the root.
PathList ==
  << <<"a", "z.log">>, <<"a.txt">>, <<"b", "keep.txt">>, <<"b", "log.txt">>,
     <<"c">> >>

FileIds == 1..MaxFiles

PathOf(fid) == PathList[((fid - 1) % Len(PathList)) + 1]

\* the directories a path lies in, the root <<>> included
DirsOf(p) == {SubSeq(p, 1, k) : k \in 0..(Len(p) - 1)}

AllDirs == UNION {DirsOf(PathOf(f)) : f \in FileIds}

\* filepath.Separator of the host
HostSeparators == {"/", "\\"}

\* the exclusion lists given with -exclude
GlobLists ==
  {<<>>, <<"**/*.log">>, <<"*.txt", "b/**">>, <<"b/**", "*.txt">>}

\* byte values of the names, separators and patterns, for the ordering
\* sort.Strings gives the names of one directory and for matching
SegBytes(s) ==
  CASE s = "a" -> <<97>>
    [] s = "a.txt" -> <<97, 46, 116, 120, 116>>
    [] s = "b" -> <<98>>
    [] s = "c" -> <<99>>
    [] s = "keep.txt" -> <<107, 101, 101, 112, 46, 116, 120, 116>>
    [] s = "log.txt" -> <<108, 111, 103, 46, 116, 120, 116>>
    [] s = "z.log" -> <<122, 46, 108, 111, 103>>
    [] s = "src" -> <<115, 114, 99>>
    [] s = "/" -> <<47>>
    [] s = "\\" -> <<92>>
    [] s = "**/*.log" -> <<42, 42, 47, 42, 46, 108, 111, 103>>
    [] s = "*.txt" -> <<42, 46, 116, 120, 116>>
    [] s = "b/**" -> <<98, 47, 42, 42>>
    [] OTHER -> <<>>

RECURSIVE BytesLess(_, _)
BytesLess(x, y) ==
  IF Len(y) = 0 THEN FALSE
  ELSE IF Len(x) = 0 THEN TRUE
  ELSE IF x[1] # y[1] THEN x[1] < y[1]
  ELSE BytesLess(Tail(x), Tail(y))

\* filepath.Walk visits the names of each directory in lexical order, depth
\* first: p is visited before q
RECURSIVE WalkLess(_, _)
WalkLess(p, q) ==
  IF Len(q) = 0 THEN FALSE
  ELSE IF Len(p) = 0 THEN TRUE
  ELSE IF p[1] # q[1] THEN BytesLess(SegBytes(p[1]), SegBytes(q[1]))
  ELSE WalkLess(Tail(p), Tail(q))

\* filepath.Rel: the segments below the base, with the host's separator
\* between them
RECURSIVE Rel(_, _)
Rel(segs, sep) ==
  IF Len(segs) = 0 THEN <<".">>
  ELSE IF Len(segs) = 1 THEN segs
  ELSE <<segs[1], sep>> \o Rel(Tail(segs), sep)

\* filepath.ToSlash: every host separator becomes a forward slash
\* variant of ToSlash: the path is left as the host wrote it
ToSlashNone(path, sep) == path

RECURSIVE ToSlash(_, _)
ToSlash(path, sep) ==
  IF Len(path) = 0 THEN <<>>
  ELSE <<IF path[1] = sep THEN "/" ELSE path[1]>> \o ToSlash(Tail(path), sep)

\* the path as one string
RECURSIVE PathString(_)
PathString(path) ==
  IF Len(path) = 0 THEN "" ELSE path[1] \o PathString(Tail(path))

\* the bytes of a path or pattern
RECURSIVE PathBytes(_)
PathBytes(path) ==
  IF Len(path) = 0 THEN <<>> ELSE SegBytes(path[1]) \o PathBytes(Tail(path))

\* filepath.Base: the last segment
Base(segs) == IF Len(segs) = 0 THEN "." ELSE segs[Len(segs)]

\* the modification time os.FileInfo reports for a file, and the zero
\* time.Time
MTimeOf(fid) == 1000 + fid

ZeroTime == 0

\* the length of each candidate file, in the chunks io.Copy moves
SizeList == <<2, 1, 0, 1, 2>>

SizeOf(fid) == SizeList[((fid - 1) % Len(SizeList)) + 1]

\* the bytes of a file, chunk by chunk
Content(fid) == [k \in 1..SizeOf(fid) |-> <<fid, k>>]

\* a candidate file is absent, or present and readable or not
FileStates ==
  {[present |-> FALSE, readable |-> FALSE]}
    \cup [present : {TRUE}, readable : BOOLEAN]

\* ---------------------------------------------------- doublestar.PathMatch
\* the components of a byte string between separators
RECURSIVE SplitAt(_, _, _)
SplitAt(bytes, sepByte, cur) ==
  IF Len(bytes) = 0 THEN <<cur>>
  ELSE IF bytes[1] = sepByte
       THEN <<cur>> \o SplitAt(Tail(bytes), sepByte, <<>>)
       ELSE SplitAt(Tail(bytes), sepByte, Append(cur, bytes[1]))

\* one component against one pattern component: a star stands for any run
\* of bytes of the component
RECURSIVE GlobMatch(_, _)
GlobMatch(pat, str) ==
  IF Len(pat) = 0 THEN Len(str) = 0
  ELSE IF pat[1] = 42
       THEN \/ GlobMatch(Tail(pat), str)
            \/ Len(str) > 0 /\ GlobMatch(pat, Tail(str))
       ELSE /\ Len(str) > 0
            /\ pat[1] = str[1]
            /\ GlobMatch(Tail(pat), Tail(str))

\* components against pattern components: a component ** stands for any
\* number of components
RECURSIVE CompsMatch(_, _)
CompsMatch(pats, comps) ==
  IF Len(pats) = 0 THEN Len(comps) = 0
  ELSE IF pats[1] = <<42, 42>>
       THEN \/ CompsMatch(Tail(pats), comps)
            \/ Len(comps) > 0 /\ CompsMatch(pats, Tail(comps))
       ELSE /\ Len(comps) > 0
            /\ GlobMatch(pats[1], comps[1])
            /\ CompsMatch(Tail(pats), Tail(comps))

\* doublestar.PathMatch(pattern, name): both are split at the host's
\* separator
PathMatch(pattern, name, sep) ==
  CompsMatch(SplitAt(SegBytes(pattern), SegBytes(sep)[1], <<>>),
             SplitAt(PathBytes(name), SegBytes(sep)[1], <<>>))

\* the patterns in use and the relative paths the walk can meet
GlobStrings == UNION {{g[i] : i \in 1..Len(g)} : g \in GlobLists}

RelPaths ==
  {ToSlash(Rel(PathOf(f), sep), sep) : f \in FileIds, sep \in HostSeparators}

\* PathMatch for every pattern, path and host, worked out once
PathMatches ==
  [g \in GlobStrings, name \in RelPaths, sep \in HostSeparators |->
     PathMatch(g, name, sep)] @@ <<>>

\* variant of Excluded: only the first pattern is tried
ExcludedFirstOnly(globs, name, sep) ==
  Len(globs) > 0 /\ PathMatches[globs[1], name, sep]

\* the loop over excludeGlobs in the walk callback: the first match ends it
RECURSIVE Excluded(_, _, _)
Excluded(globs, name, sep) ==
  IF Len(globs) = 0 THEN FALSE
  ELSE IF PathMatches[globs[1], name, sep] THEN TRUE
  ELSE Excluded(Tail(globs), name, sep)

\* ------------------------------------------------------------ filepath.Walk
\* a file is reached when it is present and every directory above it can be
\* read
Reached(t, bad, f) == t[f].present /\ DirsOf(PathOf(f)) \cap bad = {}

\* what Walk hands to its callback besides readable directories: the files
\* it reaches, and the directories it cannot read, each with the error
WalkItems(t, bad) ==
  {[kind |-> "file", path |-> PathOf(f), fid |-> f] :
     f \in {g \in FileIds : Reached(t, bad, g)}}
    \cup {[kind |-> "direrr", path |-> d, fid |-> 0] : d \in bad}

\* the items in the order Walk visits them
RECURSIVE WalkOrder(_)
WalkOrder(items) ==
  IF items = {} THEN <<>>
  ELSE LET x == CHOOSE i \in items :
                  \A j \in items \ {i} : WalkLess(i.path, j.path)
       IN  <<x>> \o WalkOrder(items \ {x})

\* the walk of every tree, worked out once (@@ makes the table explicit)
WalkTable ==
  [t \in [FileIds -> FileStates], bad \in SUBSET AllDirs |->
     WalkOrder(WalkItems(t, bad))] @@ <<>>

WalkEvents(t, bad) == WalkTable[t, bad]

\* the walk callback of zipFileOrDir over the visited items: errors and
\* directories are passed over, excluded paths dropped, the rest appended
RECURSIVE WalkFiles(_, _, _)
WalkFiles(events, globs, sep) ==
  IF Len(events) = 0 THEN <<>>
  ELSE LET ev == Head(events)
           rel == ToSlash(Rel(ev.path, sep), sep)
       IN  IF ev.kind = "direrr" \/ Excluded(globs, rel, sep)
           THEN WalkFiles(Tail(events), globs, sep)
           ELSE <<[relPath |-> PathString(rel), fid |-> ev.fid]>>
                  \o WalkFiles(Tail(events), globs, sep)

\* the file list of every tree under every exclusion list and host, worked
\* out once
FileListTable ==
  [t \in [FileIds -> FileStates], bad \in SUBSET AllDirs,
   globs \in GlobLists, sep \in HostSeparators |->
     WalkFiles(WalkEvents(t, bad), globs, sep)] @@ <<>>

Walk(t, bad, globs, sep) == FileListTable[t, bad, globs, sep]

\* ------------------------------------------------------------------ state
Workers == 1..MaxWorkers
NoJob == [relPath |-> "", fid |-> 0]

VARIABLES
  prog,         \* the program run: "zipper" (zipFileOrDir), "main" (zipFolder)
  hostSep,      \* filepath.Separator of the host
  excludeGlobs, \* the -exclude flags, in the order given
  workers,      \* the -threads flag
  srcIsDir,     \* info.IsDir() of the source
  tree,         \* the files under the source (file 1 is the single source)
  badDirs,      \* the directories under the source that cannot be read
  mainpc,       \* position of zipFileOrDir or zipFolder
  walked,       \* items zipFolder's walk callback has returned from
  fileList,     \* the enumerated jobs
  sent,         \* number of jobs handed over on the jobs channel
  jobsClosed,   \* close(jobs) has run
  wg,           \* the WaitGroup counter
  pc,           \* position of each worker goroutine
  job,          \* the job a worker holds
  err,          \* the error of the worker's current processing step
  handle,       \* number of read handles the worker holds open
  pos,          \* chunks of the source already copied by the worker
  entry,        \* index in dir of the entry writer the worker holds
  mutex,        \* holder of the sink mutex, 0 when free
  dir,          \* zip.Writer.dir with the payload each entry received
  zipClosed,    \* zip.Writer.closed
  finalized,    \* the central directory reached the output file
  corrupt,      \* bytes reached the sink outside the entry that owns them
  outFile,      \* the output file: "none", "open", "closed"
  bar,          \* the progress bar's count
  log,          \* the warnings written to stderr, as a bag of paths
  failed,       \* the paths whose processing step returned an error
  ret,          \* the value zipFileOrDir returned: "pending", "nil", "err"
  recvCount,    \* per job: how often it was received from the channel
  createCalls,  \* per job: CreateHeader calls made for it
  closeCalls    \* calls of zipWriter.Close

vars ==
  << prog, hostSep, excludeGlobs, workers, srcIsDir, tree, badDirs, mainpc,
     walked, fileList, sent, jobsClosed, wg, pc, job,
     err, handle, pos, entry, mutex, dir, zipClosed, finalized, corrupt,
     outFile, bar, log, failed, ret, recvCount, createCalls, closeCalls >>

inputVars ==
  << prog, hostSep, excludeGlobs, workers, srcIsDir, tree, badDirs >>
mainVars == << mainpc, walked, fileList, jobsClosed, ret >>
sinkVars == << dir, zipClosed, finalized, corrupt, outFile, closeCalls >>
workerVars == << pc, job, err, handle, pos, entry >>

Init ==
  /\ prog \in {"zipper", "main"}
  /\ hostSep \in HostSeparators
  /\ excludeGlobs \in GlobLists
  /\ workers \in MinWorkers..MaxWorkers
  /\ srcIsDir \in BOOLEAN
  /\ tree \in [FileIds -> FileStates]
  /\ badDirs \in SUBSET AllDirs
  \* zipFolder has no flags
  /\ prog = "main" => excludeGlobs = <<>> /\ workers = 1
  /\ srcIsDir = FALSE =>
       /\ tree[1].present
       /\ \A f \in FileIds \ {1} : ~tree[f].present
       /\ badDirs = {}
  \* an unreadable directory holds a file, which nothing below can tell
  \* from a readable one; below an unreadable root nothing else counts
  /\ \A d \in badDirs :
       \E f \in FileIds : tree[f].present /\ d \in DirsOf(PathOf(f))
  /\ \A f \in FileIds :
       (tree[f].present /\ ~Reached(tree, badDirs, f)) => tree[f].readable
  /\ <<>> \in badDirs => badDirs = {<<>>}
  /\ mainpc = "create"
  /\ walked = 0
  /\ fileList = <<>>
  /\ sent = 0
  /\ jobsClosed = FALSE
  /\ wg = 0
  /\ pc = [w \in Workers |-> "idle"]
  /\ job = [w \in Workers |-> NoJob]
  /\ err = [w \in Workers |-> FALSE]
  /\ handle = [w \in Workers |-> 0]
  /\ pos = [w \in Workers |-> 0]
  /\ entry = [w \in Workers |-> 0]
  /\ mutex = 0
  /\ dir = <<>>
  /\ zipClosed = FALSE
  /\ finalized = FALSE
  /\ corrupt = FALSE
  /\ outFile = "none"
  /\ bar = 0
  /\ log = EmptyBag
  /\ failed = {}
  /\ ret = "pending"
  /\ recvCount = <<>>
  /\ createCalls = <<>>
  /\ closeCalls = 0

\* ------------------------------------------------------------- zip.Writer
\* Writer.prepare: an entry still open is closed before the next begins
CloseLast(d) ==
  IF Len(d) > 0 /\ ~d[Len(d)].closed
  THEN [d EXCEPT ![Len(d)].closed = TRUE]
  ELSE d

\* zip.FileInfoHeader: the base name, and SetModTime, which sets Modified
\* and the MS-DOS date and time fields alike
FileInfoHeader(fid) ==
  [name |-> Base(PathOf(fid)), modified |-> MTimeOf(fid),
   dosTime |-> MTimeOf(fid)]

\* the header both zipFileOrDir's workers and addFileToZip build
JobHeader(fid, name) ==
  [FileInfoHeader(fid) EXCEPT !.name = name, !.modified = ZeroTime]

\* the header Writer.Create builds: the name and nothing else
PlainHeader(name) ==
  [name |-> name, modified |-> ZeroTime, dosTime |-> ZeroTime]

\* Writer.CreateHeader: closes the previous entry and appends the new one;
\* a Modified that is set replaces the MS-DOS fields, a zero one leaves them
CreateHeader(d, h) ==
  Append(CloseLast(d),
         [name |-> h.name, data |-> <<>>, closed |-> FALSE,
          modTime |-> IF h.modified # ZeroTime THEN h.modified
                      ELSE h.dosTime])

\* fileWriter.Write on entry e: appends the chunk to the entry's payload
WriteChunk(d, e, chunk) == [d EXCEPT ![e].data = Append(@, chunk)]

\* io.Copy into entry e with no other writer: every chunk in turn
RECURSIVE WriteAll(_, _, _)
WriteAll(d, e, chunks) ==
  IF Len(chunks) = 0 THEN d
  ELSE WriteAll(WriteChunk(d, e, Head(chunks)), e, Tail(chunks))

\* -------------------------------------------------------- zipFileOrDir
\* os.Create(output); zip.NewWriter; the compression level
OsCreate ==
  /\ prog = "zipper"
  /\ mainpc = "create"
  /\ \E ok \in BOOLEAN :
       IF ok
       THEN /\ outFile' = "open"
            /\ mainpc' = IF srcIsDir THEN "walk" ELSE "single"
            /\ ret' = ret
       ELSE /\ outFile' = outFile
            /\ mainpc' = "returned"
            /\ ret' = "err"
  /\ UNCHANGED << inputVars, walked, fileList, sent, jobsClosed, wg, workerVars, mutex,
                  dir, zipClosed, finalized, corrupt, bar, log, failed, recvCount,
                  createCalls, closeCalls >>

\* variant of AddFileToZip: the entry is named by the path, not its base
AddFileToZipFullPath ==
  /\ mainpc = "single"
  /\ LET d == CreateHeader(dir, JobHeader(1, PathString(
                  ToSlash(Rel(PathOf(1), hostSep), hostSep))))
     IN  dir' = IF tree[1].readable
                THEN WriteAll(d, Len(d), Content(1))
                ELSE d
  /\ ret' = IF tree[1].readable THEN "nil" ELSE "err"
  /\ mainpc' = "zipclose"
  /\ UNCHANGED << inputVars, walked, fileList, sent, jobsClosed, wg, workerVars, mutex,
                  zipClosed, finalized, corrupt, outFile, bar, log, failed, recvCount,
                  createCalls, closeCalls >>

\* addFileToZip for a source that is a regular file: CreateHeader, os.Open,
\* io.Copy, with nothing else running
AddFileToZip ==
  /\ mainpc = "single"
  /\ LET d == CreateHeader(dir, JobHeader(1, PathString(
                  ToSlash(<<Base(PathOf(1))>>, hostSep))))
     IN  dir' = IF tree[1].readable
                THEN WriteAll(d, Len(d), Content(1))
                ELSE d
  /\ ret' = IF tree[1].readable THEN "nil" ELSE "err"
  /\ mainpc' = "zipclose"
  /\ UNCHANGED << inputVars, walked, fileList, sent, jobsClosed, wg, workerVars, mutex,
                  zipClosed, finalized, corrupt, outFile, bar, log, failed, recvCount,
                  createCalls, closeCalls >>

\* filepath.Walk with the callback that fills fileList
WalkSource ==
  /\ mainpc = "walk"
  /\ fileList' = Walk(tree, badDirs, excludeGlobs, hostSep)
  /\ recvCount' = [i \in 1..Len(fileList') |-> 0]
  /\ createCalls' = [i \in 1..Len(fileList') |-> 0]
  /\ mainpc' = "spawn"
  /\ UNCHANGED << inputVars, walked, sent, jobsClosed, wg, workerVars, mutex,
                  sinkVars, bar, log, failed, ret >>

\* the loop that starts the worker goroutines
Spawn ==
  /\ mainpc = "spawn"
  /\ pc' = [w \in Workers |-> IF w <= workers THEN "recv" ELSE "idle"]
  /\ wg' = IF workers > 0 THEN workers ELSE 0
  /\ mainpc' = "send"
  /\ UNCHANGED << inputVars, walked, fileList, sent, jobsClosed, job, err, handle, pos,
                  entry, mutex, sinkVars, bar, log, failed, ret, recvCount,
                  createCalls >>

\* variant of Receive: the send loop does not move on to the next job
ReceiveNoAdvance(w) ==
  /\ mainpc = "send"
  /\ sent < Len(fileList)
  /\ pc[w] = "recv"
  /\ sent' = sent
  /\ job' = [job EXCEPT ![w] = fileList[sent + 1]]
  /\ recvCount' = [recvCount EXCEPT ![sent + 1] = @ + 1]
  /\ err' = [err EXCEPT ![w] = FALSE]
  /\ pos' = [pos EXCEPT ![w] = 0]
  /\ entry' = [entry EXCEPT ![w] = 0]
  /\ pc' = [pc EXCEPT ![w] = "lock"]
  /\ UNCHANGED << inputVars, mainVars, wg, handle, mutex, sinkVars, bar, log, failed,
                  createCalls >>

\* variant of Receive: the send loop runs over fileList from its end
ReceiveFromEnd(w) ==
  /\ mainpc = "send"
  /\ sent < Len(fileList)
  /\ pc[w] = "recv"
  /\ sent' = sent + 1
  /\ job' = [job EXCEPT ![w] = fileList[Len(fileList) - sent]]
  /\ recvCount' = [recvCount EXCEPT ![Len(fileList) - sent] = @ + 1]
  /\ err' = [err EXCEPT ![w] = FALSE]
  /\ pos' = [pos EXCEPT ![w] = 0]
  /\ entry' = [entry EXCEPT ![w] = 0]
  /\ pc' = [pc EXCEPT ![w] = "lock"]
  /\ UNCHANGED << inputVars, mainVars, wg, handle, mutex, sinkVars, bar, log, failed,
                  createCalls >>

\* jobs <- job meets a worker's receive on the unbuffered channel; the worker
\* then builds the header
Receive(w) ==
  /\ mainpc = "send"
  /\ sent < Len(fileList)
  /\ pc[w] = "recv"
  /\ sent' = sent + 1
  /\ job' = [job EXCEPT ![w] = fileList[sent + 1]]
  /\ recvCount' = [recvCount EXCEPT ![sent + 1] = @ + 1]
  /\ err' = [err EXCEPT ![w] = FALSE]
  /\ pos' = [pos EXCEPT ![w] = 0]
  /\ entry' = [entry EXCEPT ![w] = 0]
  /\ pc' = [pc EXCEPT ![w] = "lock"]
  /\ UNCHANGED << inputVars, mainVars, wg, handle, mutex, sinkVars, bar, log, failed,
                  createCalls >>

\* variant of CloseJobs: the channel is never closed
CloseJobsForgotten ==
  /\ mainpc = "send"
  /\ sent = Len(fileList)
  /\ jobsClosed' = FALSE
  /\ mainpc' = "wait"
  /\ UNCHANGED << inputVars, walked, fileList, sent, wg, workerVars, mutex, sinkVars,
                  bar, log, failed, ret, recvCount, createCalls >>

\* close(jobs) once the send loop is over
CloseJobs ==
  /\ mainpc = "send"
  /\ sent = Len(fileList)
  /\ jobsClosed' = TRUE
  /\ mainpc' = "wait"
  /\ UNCHANGED << inputVars, walked, fileList, sent, wg, workerVars, mutex, sinkVars,
                  bar, log, failed, ret, recvCount, createCalls >>

\* variant of WaitDone: the return does not wait for the workers
WaitDoneNoBarrier ==
  /\ mainpc = "wait"
  /\ ret' = "nil"
  /\ mainpc' = "zipclose"
  /\ UNCHANGED << inputVars, walked, fileList, sent, jobsClosed, wg, workerVars, mutex,
                  sinkVars, bar, log, failed, recvCount, createCalls >>

\* wg.Wait() and return nil
WaitDone ==
  /\ mainpc = "wait"
  /\ wg = 0
  /\ ret' = "nil"
  /\ mainpc' = "zipclose"
  /\ UNCHANGED << inputVars, walked, fileList, sent, jobsClosed, wg, workerVars, mutex,
                  sinkVars, bar, log, failed, recvCount, createCalls >>

\* ------------------------------------------------------------- zipFolder
\* zipFolder of src/main.go: os.Create(out); zip.NewWriter
FolderCreate ==
  /\ prog = "main"
  /\ mainpc = "create"
  /\ \E ok \in BOOLEAN :
       IF ok
       THEN /\ outFile' = "open"
            /\ mainpc' = "folder"
            /\ ret' = ret
       ELSE /\ outFile' = outFile
            /\ mainpc' = "returned"
            /\ ret' = "err"
  /\ UNCHANGED << inputVars, walked, fileList, sent, jobsClosed, wg, workerVars,
                  mutex, dir, zipClosed, finalized, corrupt, bar, log, failed,
                  recvCount, createCalls, closeCalls >>

\* the name zipFolder gives an entry: the path relative to the directory
\* that holds src, with the host's separators
FolderName(path) ==
  PathString(Rel(IF srcIsDir THEN <<"src">> \o path ELSE <<Base(path)>>,
                 hostSep))

\* one call of zipFolder's walk callback, and the walk's return: an error
\* handed in or met in os.Open ends the walk and is returned; a file is
\* created in the archive and copied
FolderVisit ==
  /\ mainpc = "folder"
  /\ LET events == WalkEvents(tree, badDirs)
     IN  IF walked = Len(events)
         THEN /\ ret' = "nil"
              /\ mainpc' = "zipclose"
              /\ UNCHANGED << walked, dir >>
         ELSE LET ev == events[walked + 1]
                  d == CreateHeader(dir, PlainHeader(FolderName(ev.path)))
              IN  IF ev.kind = "direrr"
                  THEN /\ ret' = "err"
                       /\ mainpc' = "zipclose"
                       /\ UNCHANGED << walked, dir >>
                  ELSE IF ~tree[ev.fid].readable
                  THEN /\ dir' = d
                       /\ ret' = "err"
                       /\ mainpc' = "zipclose"
                       /\ walked' = walked
                  ELSE /\ dir' = WriteAll(d, Len(d), Content(ev.fid))
                       /\ walked' = walked + 1
                       /\ UNCHANGED << mainpc, ret >>
  /\ UNCHANGED << inputVars, fileList, sent, jobsClosed, wg, workerVars, mutex,
                  zipClosed, finalized, corrupt, outFile, bar, log, failed,
                  recvCount, createCalls, closeCalls >>

\* ------------------------------------------------------- deferred closes
\* the deferred zipWriter.Close(): its error is dropped
ZipClose ==
  /\ mainpc = "zipclose"
  /\ closeCalls' = closeCalls + 1
  /\ dir' = CloseLast(dir)
  /\ zipClosed' = TRUE
  /\ \E ok \in BOOLEAN : finalized' = ok
  /\ mainpc' = "outclose"
  /\ UNCHANGED << inputVars, walked, fileList, sent, jobsClosed, wg, workerVars, mutex,
                  corrupt, outFile, bar, log, failed, ret, recvCount, createCalls >>

\* the deferred outFile.Close()
OutClose ==
  /\ mainpc = "outclose"
  /\ outFile' = "closed"
  /\ mainpc' = "returned"
  /\ UNCHANGED << inputVars, walked, fileList, sent, jobsClosed, wg, workerVars, mutex,
                  dir, zipClosed, finalized, corrupt, bar, log, failed, ret, recvCount,
                  createCalls, closeCalls >>

\* --------------------------------------------------------------- workers
\* variant of Lock: the mutex is taken without waiting for it to be free
LockNoWait(w) ==
  /\ pc[w] = "lock"
  /\ mutex' = w
  /\ pc' = [pc EXCEPT ![w] = "create"]
  /\ UNCHANGED << inputVars, mainVars, sent, wg, job, err, handle, pos, entry,
                  sinkVars, bar, log, failed, recvCount, createCalls >>

\* mutex.Lock()
Lock(w) ==
  /\ pc[w] = "lock"
  /\ mutex = 0
  /\ mutex' = w
  /\ pc' = [pc EXCEPT ![w] = "create"]
  /\ UNCHANGED << inputVars, mainVars, sent, wg, job, err, handle, pos, entry,
                  sinkVars, bar, log, failed, recvCount, createCalls >>

\* writer, err := zipWriter.CreateHeader(header); mutex.Unlock(); then
\* f, err := os.Open(job.fullPath), which reads nothing shared
WorkerCreate(w) ==
  /\ pc[w] = "create"
  /\ dir' = CreateHeader(dir, JobHeader(job[w].fid, job[w].relPath))
  /\ entry' = [entry EXCEPT ![w] = Len(dir) + 1]
  /\ createCalls' =
       [createCalls EXCEPT ![CHOOSE i \in 1..Len(fileList) :
                               fileList[i] = job[w]] = @ + 1]
  /\ mutex' = 0
  /\ IF tree[job[w].fid].readable
     THEN /\ handle' = [handle EXCEPT ![w] = @ + 1]
          /\ err' = err
          /\ failed' = failed
          /\ pc' = [pc EXCEPT ![w] = "copy"]
     ELSE /\ handle' = handle
          /\ err' = [err EXCEPT ![w] = TRUE]
          /\ failed' = failed \cup {job[w].relPath}
          /\ pc' = [pc EXCEPT ![w] = "finish"]
  /\ UNCHANGED << inputVars, mainVars, sent, wg, job, pos, zipClosed,
                  finalized, corrupt, outFile, closeCalls, bar, log,
                  recvCount >>

\* io.Copy: read the next chunk; at end of file the copy is over; otherwise
\* fileWriter.Write tests the entry's closed flag
CopyRead(w) ==
  /\ pc[w] = "copy"
  /\ IF pos[w] = SizeOf(job[w].fid)
     THEN /\ pc' = [pc EXCEPT ![w] = "finish"]
          /\ UNCHANGED << err, failed >>
     ELSE IF dir[entry[w]].closed
          THEN /\ pc' = [pc EXCEPT ![w] = "finish"]
               /\ err' = [err EXCEPT ![w] = TRUE]
               /\ failed' = failed \cup {job[w].relPath}
          ELSE /\ pc' = [pc EXCEPT ![w] = "write"]
               /\ UNCHANGED << err, failed >>
  /\ UNCHANGED << inputVars, mainVars, sent, wg, job, handle, pos, entry, mutex,
                  sinkVars, bar, log, recvCount, createCalls >>

\* fileWriter.Write past the closed test, without the mutex. While the
\* worker's entry is the open one the chunk joins its payload. After another
\* worker's CreateHeader ended the entry, the unsynchronized write either
\* fails in the closed compressor or puts the chunk into the stream where the
\* entry now being written has its payload.
CopyWrite(w) ==
  /\ pc[w] = "write"
  /\ IF ~dir[entry[w]].closed
     THEN /\ dir' = WriteChunk(dir, entry[w], <<job[w].fid, pos[w] + 1>>)
          /\ pos' = [pos EXCEPT ![w] = @ + 1]
          /\ pc' = [pc EXCEPT ![w] = "copy"]
          /\ UNCHANGED << corrupt, err, failed >>
     ELSE \/ /\ err' = [err EXCEPT ![w] = TRUE]
             /\ failed' = failed \cup {job[w].relPath}
             /\ pc' = [pc EXCEPT ![w] = "finish"]
             /\ UNCHANGED << dir, corrupt, pos >>
          \/ /\ dir' = WriteChunk(dir, Len(dir), <<job[w].fid, pos[w] + 1>>)
             /\ corrupt' = TRUE
             /\ pos' = [pos EXCEPT ![w] = @ + 1]
             /\ pc' = [pc EXCEPT ![w] = "copy"]
             /\ UNCHANGED << err, failed >>
  /\ UNCHANGED << inputVars, mainVars, sent, wg, job, handle, entry, mutex,
                  zipClosed, finalized, outFile, closeCalls, bar, log,
                  recvCount, createCalls >>

\* the deferred f.Close() of the processing step: registered once os.Open
\* has succeeded, run when the step returns
DeferredClose(w) ==
  [handle EXCEPT ![w] = IF tree[job[w].fid].readable THEN @ - 1 ELSE @]

\* variant of Finish: the handle is closed only when the copy succeeded
FinishLeak(w) ==
  /\ pc[w] = "finish"
  /\ handle' = IF err[w] THEN handle ELSE DeferredClose(w)
  /\ log' = IF err[w] THEN log (+) SetToBag({job[w].relPath}) ELSE log
  /\ bar' = bar + 1
  /\ pc' = [pc EXCEPT ![w] = "recv"]
  /\ UNCHANGED << inputVars, mainVars, sent, wg, job, err, pos, entry, mutex,
                  sinkVars, failed, recvCount, createCalls >>

\* variant of Finish: the progress bar advances only for a step that succeeded
FinishBarOnSuccess(w) ==
  /\ pc[w] = "finish"
  /\ handle' = DeferredClose(w)
  /\ log' = IF err[w] THEN log (+) SetToBag({job[w].relPath}) ELSE log
  /\ bar' = IF err[w] THEN bar ELSE bar + 1
  /\ pc' = [pc EXCEPT ![w] = "recv"]
  /\ UNCHANGED << inputVars, mainVars, sent, wg, job, err, pos, entry, mutex,
                  sinkVars, failed, recvCount, createCalls >>

\* variant of Finish: the error of the processing step is dropped unreported
FinishSilent(w) ==
  /\ pc[w] = "finish"
  /\ handle' = DeferredClose(w)
  /\ log' = log
  /\ bar' = bar + 1
  /\ pc' = [pc EXCEPT ![w] = "recv"]
  /\ UNCHANGED << inputVars, mainVars, sent, wg, job, err, pos, entry, mutex,
                  sinkVars, failed, recvCount, createCalls >>

\* the end of one job: the deferred f.Close(), the warning on stderr when
\* err != nil, and bar.Add(1)
Finish(w) ==
  /\ pc[w] = "finish"
  /\ handle' = DeferredClose(w)
  /\ log' = IF err[w] THEN log (+) SetToBag({job[w].relPath}) ELSE log
  /\ bar' = bar + 1
  /\ pc' = [pc EXCEPT ![w] = "recv"]
  /\ UNCHANGED << inputVars, mainVars, sent, wg, job, err, pos, entry, mutex,
                  sinkVars, failed, recvCount, createCalls >>

\* the range loop ends on the closed channel; the deferred wg.Done()
WorkerExit(w) ==
  /\ pc[w] = "recv"
  /\ jobsClosed
  /\ wg' = wg - 1
  /\ pc' = [pc EXCEPT ![w] = "exited"]
  /\ UNCHANGED << inputVars, mainVars, sent, job, err, handle, pos, entry,
                  mutex, sinkVars, bar, log, failed, recvCount, createCalls >>

WorkerStep(w) ==
  \/ Receive(w)
  \/ Lock(w)
  \/ WorkerCreate(w)
  \/ CopyRead(w)
  \/ CopyWrite(w)
  \/ Finish(w)
  \/ WorkerExit(w)

MainStep ==
  \/ OsCreate
  \/ FolderCreate
  \/ FolderVisit
  \/ AddFileToZip
  \/ WalkSource
  \/ Spawn
  \/ CloseJobs
  \/ WaitDone
  \/ ZipClose
  \/ OutClose

Next ==
  \/ MainStep
  \/ \E w \in Workers : WorkerStep(w)

Spec == Init /\ [][Next]_vars

\* the builds whose file list is cut by nothing but unreadable directories:
\* exclusions and the host's separator act on the build through fileList
\* alone
FairInit ==
  /\ Init
  /\ hostSep = "/"
  /\ excludeGlobs = <<>>

\* the Go scheduler runs every goroutine that can take a step
FairSpec ==
  /\ FairInit
  /\ [][Next]_vars
  /\ WF_vars(MainStep)
  /\ \A w \in Workers : WF_vars(WorkerStep(w))

\* ------------------------------------------------------------ properties
DirMode == prog = "zipper" /\ srcIsDir /\ outFile # "none"

Returned == mainpc = "returned"

\* the worker has created its entry and its copy is still going on
Copying(w) == pc[w] \in {"copy", "write"}

\* the index in fileList of the job named name, 0 if there is none
JobIndex(name) ==
  IF \E i \in 1..Len(fileList) : fileList[i].relPath = name
  THEN CHOOSE i \in 1..Len(fileList) : fileList[i].relPath = name
  ELSE 0

\* the bytes of the source file an entry name stands for
SourceData(name) ==
  IF srcIsDir
  THEN IF JobIndex(name) = 0 THEN <<>> ELSE Content(fileList[JobIndex(name)].fid)
  ELSE Content(1)

AllReadable == \A f \in FileIds : tree[f].present => tree[f].readable

\* the archive one worker builds from the list: for every job in turn
\* CreateHeader, then the whole copy when the file opens
RECURSIVE SerialDir(_, _)
SerialDir(d, list) ==
  IF Len(list) = 0 THEN d
  ELSE LET d1 == CreateHeader(d, JobHeader(Head(list).fid, Head(list).relPath))
           d2 == IF tree[Head(list).fid].readable
                 THEN WriteAll(d1, Len(d1), Content(Head(list).fid))
                 ELSE d1
       IN  SerialDir(d2, Tail(list))

\* the entries of an archive as name and payload, whatever their order
Entries(d) == {<<d[i].name, d[i].data>> : i \in 1..Len(d)}

\* a build with one worker ends with the archive SerialDir computes
SerialIsOneWorker ==
  (Returned /\ DirMode /\ workers = 1) =>
    dir = CloseLast(SerialDir(<<>>, fileList))

\* C1: while a worker is between creating its entry's header and the end of
\* that entry's copy, its entry is the last one created and no other worker
\* is copying payload into the sink.
C1_EntryIsOneCriticalSection ==
  \A w \in Workers :
    Copying(w) =>
      /\ entry[w] = Len(dir)
      /\ ~dir[entry[w]].closed
      /\ \A v \in Workers \ {w} : ~Copying(v)

\* C2: every enumerated descriptor is received at most once, by one worker,
\* and has at most one CreateHeader call; the descriptors received are the
\* ones sent; once the build has returned each was received once and led to
\* exactly one CreateHeader call and one entry, failures or not.
C2_EachDescriptorOnce ==
  /\ srcIsDir => sent <= Len(fileList)
  /\ \A i \in 1..Len(fileList) :
       /\ recvCount[i] = IF i <= sent THEN 1 ELSE 0
       /\ createCalls[i] <= recvCount[i]
       /\ Cardinality({w \in Workers : job[w] = fileList[i]}) <= 1
       /\ Cardinality({k \in 1..Len(dir) : dir[k].name = fileList[i].relPath})
            = createCalls[i]
       /\ (Returned /\ DirMode) => recvCount[i] = 1 /\ createCalls[i] = 1

C2_Witness ==
  /\ Returned
  /\ DirMode
  /\ workers >= 2
  /\ Len(fileList) >= 2
  /\ failed # {}
  /\ \A i \in 1..Len(fileList) : createCalls[i] = 1

\* C3: when no file is unreadable, every entry of the archive of a build
\* that returned nil holds exactly the bytes of its source file, and no
\* payload reached the sink outside its entry.
C3_RoundTrip ==
  (prog = "zipper" /\ Returned /\ ret = "nil" /\ AllReadable) =>
    /\ ~corrupt
    /\ \A i \in 1..Len(dir) : dir[i].data = SourceData(dir[i].name)

\* C4: a directory build with any worker count W >= 1 ends with the same
\* entry names and the same content per entry as the build with one worker.
C4_SameAsOneWorker ==
  (Returned /\ DirMode /\ workers >= 1) =>
    Entries(dir) = Entries(SerialDir(<<>>, fileList))

\* C5: a descriptor whose processing failed has no entry in the archive of
\* the returned build, so the archive holds one entry per descriptor that
\* did not fail.
C5_FailedIsSkipped ==
  (Returned /\ DirMode) =>
    /\ \A i \in 1..Len(dir) : dir[i].name \notin failed
    /\ Len(dir) = Len(fileList) - Cardinality(failed)

FinalizedAtEnd ==
  /\ closeCalls <= 1
  /\ zipClosed <=> closeCalls = 1
  /\ (Returned /\ outFile # "none") => zipClosed
  /\ zipClosed =>
       /\ wg = 0
       /\ \A w \in Workers : pc[w] \in {"idle", "exited"}
       /\ (prog = "zipper" /\ srcIsDir) => sent = Len(fileList) /\ jobsClosed

\* C7: zipWriter.Close runs once per build, after every dispatched
\* descriptor was consumed and every worker has exited, and from then on no
\* entry is created and no payload written.
C7_FinalizedOnceAtEnd ==
  /\ []FinalizedAtEnd
  /\ [][zipClosed => (zipClosed' /\ dir' = dir /\ closeCalls' = closeCalls)]_vars

C7_Witness ==
  /\ zipClosed
  /\ srcIsDir
  /\ workers >= 2
  /\ Len(dir) >= 2
  /\ \A w \in Workers : pc[w] = "exited"

\* C8: at most one worker is inside its CreateHeader call at any time, and
\* that worker is the holder of the mutex.
C8_OneCreateInFlight ==
  /\ Cardinality({w \in Workers : pc[w] = "create"}) <= 1
  /\ \A w \in Workers : pc[w] = "create" <=> mutex = w

C8_Witness ==
  \E w \in Workers, v \in Workers :
    /\ w # v
    /\ pc[w] = "create"
    /\ mutex = w
    /\ pc[v] = "lock"

\* C9: with at least one worker a directory build always returns, whatever
\* the file list, the empty one included: every worker has left the queue
\* and the lock behind and exited, every descriptor was sent, and
\* zipWriter.Close has run once.
C9_BuildReturns ==
  (prog = "zipper" /\ workers >= 1 /\ srcIsDir) ~>
    /\ Returned
    /\ \A w \in Workers : pc[w] \in {"idle", "exited"}
    /\ mutex = 0
    /\ outFile # "none" =>
         /\ sent = Len(fileList)
         /\ zipClosed
         /\ closeCalls = 1

C9_Witness ==
  /\ Returned
  /\ DirMode
  /\ workers >= 2
  /\ Len(fileList) >= 2
  /\ zipClosed
  /\ bar = Len(fileList)

\* C10: with a worker count W <= 0 a directory build creates no output
\* file, hands out no descriptor, does not block and returns an error.
C10_InvalidWorkersRejected ==
  (workers <= 0 /\ srcIsDir) =>
    /\ outFile = "none"
    /\ sent = 0
    /\ mainpc \notin {"send", "wait"}
    /\ Returned => ret = "err"

\* C11: a build that returns an error to its caller leaves the sink
\* unfinalized: zipWriter.Close has not run and no footer was written.
C11_ErrorLeavesSinkUnfinalized ==
  (Returned /\ ret = "err") => (closeCalls = 0 /\ ~zipClosed /\ ~finalized)

\* C12: a directory build that met an unreadable directory during the walk
\* returns an error, not nil.
C12_UnreadableDirFails ==
  (Returned /\ srcIsDir /\ outFile # "none" /\ badDirs # {}) => ret = "err"

\* C13: a build whose zipWriter.Close failed to write the footer returns an
\* error, not nil.
C13_CloseFailureReported ==
  (Returned /\ zipClosed /\ ~finalized) => ret = "err"

\* C16: a source that is a single regular file gives exactly one entry,
\* named by the file's base name; no worker runs and the jobs channel is
\* not used, whatever the exclusion patterns and the worker count are.
C16_SingleFileOneEntry ==
  (prog = "zipper" /\ ~srcIsDir) =>
    /\ \A w \in Workers : pc[w] = "idle" /\ handle[w] = 0 /\ job[w] = NoJob
    /\ wg = 0 /\ mutex = 0 /\ bar = 0
    /\ fileList = <<>> /\ sent = 0 /\ ~jobsClosed
    /\ mainpc \in {"create", "single"} => dir = <<>>
    /\ (mainpc \in {"zipclose", "outclose"} \/ (Returned /\ outFile # "none")) =>
         /\ Len(dir) = 1
         /\ dir[1].name = Base(PathOf(1))
         /\ tree[1].readable => dir[1].data = Content(1) /\ ret = "nil"

C16_Witness ==
  /\ prog = "zipper" /\ ~srcIsDir
  /\ Returned /\ ret = "nil"
  /\ workers <= 0
  /\ Len(excludeGlobs) = 1
  /\ PathMatch(excludeGlobs[1], <<Base(PathOf(1))>>, hostSep)
  /\ Len(dir) = 1 /\ dir[1].data = Content(1)

\* the read handles open over all workers
RECURSIVE HandlesUpTo(_)
HandlesUpTo(n) == IF n = 0 THEN 0 ELSE handle[n] + HandlesUpTo(n - 1)

\* C19: a worker holds at most one open read handle and has closed it before
\* it takes the next descriptor, after a successful copy and after a failed
\* one; at most W handles are open at any time and none once the build has
\* returned.
C19_HandlesClosed ==
  /\ \A w \in Workers :
       /\ handle[w] \in {0, 1}
       /\ pc[w] \in {"idle", "recv", "lock", "create", "exited"} => handle[w] = 0
  /\ HandlesUpTo(MaxWorkers) <= IF workers > 0 THEN workers ELSE 0
  /\ Returned => HandlesUpTo(MaxWorkers) = 0

C19_Witness ==
  \E w \in Workers, v \in Workers :
    /\ w # v
    /\ pc[w] = "recv" /\ err[w] /\ tree[job[w].fid].readable /\ handle[w] = 0
    /\ handle[v] = 1

\* the workers that hold a descriptor whose processing has not ended
Busy == {w \in Workers : pc[w] \in {"lock", "create", "copy", "write", "finish"}}

\* C20: the progress counter never decreases and never exceeds the number of
\* enumerated descriptors; it counts the descriptors whose processing has
\* ended, one step each, failed or not, and equals the number enumerated
\* once the directory build has returned.
C20_ProgressCounts ==
  /\ [](/\ bar <= Len(fileList)
        /\ bar = sent - Cardinality(Busy)
        /\ (Returned /\ DirMode) => bar = Len(fileList))
  /\ [][bar' = bar \/ bar' = bar + 1]_vars

C20_Witness ==
  /\ Returned /\ DirMode
  /\ Len(fileList) >= 2
  /\ bar = Len(fileList)
  /\ failed # {}
  /\ \E i \in 1..Len(fileList) : fileList[i].relPath \notin failed

\* a path written with forward slashes between its segments
RECURSIVE SlashTokens(_)
SlashTokens(segs) ==
  IF Len(segs) <= 1 THEN segs
  ELSE <<segs[1], "/">> \o SlashTokens(Tail(segs))

PresentFiles == {f \in FileIds : tree[f].present}

\* C14: with no exclusion pattern and nothing unreadable, the entries of a
\* returned directory build are named by the slash-separated relative paths
\* of the regular files under the source, one entry per file: no name twice,
\* none for a directory, whatever the host's separator is.
C14_NamesAreSlashPaths ==
  (Returned /\ DirMode /\ excludeGlobs = <<>> /\ AllReadable /\ badDirs = {}) =>
    /\ Len(dir) = Cardinality(PresentFiles)
    /\ {dir[i].name : i \in 1..Len(dir)}
         = {PathString(SlashTokens(PathOf(f))) : f \in PresentFiles}
    /\ \A i \in 1..Len(dir), j \in 1..Len(dir) :
         dir[i].name = dir[j].name => i = j
    /\ \A i \in 1..Len(dir), d \in AllDirs :
         dir[i].name # PathString(SlashTokens(d))

C14_Witness ==
  /\ Returned /\ DirMode /\ excludeGlobs = <<>> /\ AllReadable /\ badDirs = {}
  /\ hostSep = "\\"
  /\ workers >= 2
  /\ Len(dir) >= 2
  /\ \E i \in 1..Len(dir) : dir[i].name = "a/z.log"

\* the relative path of a job as the walk callback matched it
RelOf(j) == ToSlash(Rel(PathOf(j.fid), hostSep), hostSep)

\* the exclusion list in the opposite order
Reversed(globs) == [k \in 1..Len(globs) |-> globs[Len(globs) + 1 - k]]

\* C15: no job in fileList has a relative path that PathMatch matches to one
\* of the exclusion patterns, and the list is the same when the patterns are
\* given in the opposite order.
C15_NoExcludedJob ==
  /\ \A i \in 1..Len(fileList), k \in 1..Len(excludeGlobs) :
       ~PathMatch(excludeGlobs[k], RelOf(fileList[i]), hostSep)
  /\ (DirMode /\ mainpc # "walk") =>
       fileList = WalkFiles(WalkEvents(tree, badDirs), Reversed(excludeGlobs),
                            hostSep)

C15_Witness ==
  /\ DirMode
  /\ mainpc = "send"
  /\ Len(excludeGlobs) = 2
  /\ ~PathMatch(excludeGlobs[1], <<"a.txt">>, hostSep)
  /\ PathMatch(excludeGlobs[2], <<"a.txt">>, hostSep)
  /\ tree[2].present /\ badDirs = {}
  /\ Len(fileList) = 1 /\ sent = 1

\* C17: with one worker the archive is a function of the input alone: the
\* entries in the order of the walk, each with its file's bytes, and every
\* entry carries the zero modification time, never the file's own.
C17_OneWorkerDeterministic ==
  (prog = "zipper" /\ Returned /\ outFile # "none" /\ (srcIsDir => workers = 1)) =>
    /\ srcIsDir =>
         dir = CloseLast(SerialDir(<<>>,
                 WalkFiles(WalkEvents(tree, badDirs), excludeGlobs, hostSep)))
    /\ \A i \in 1..Len(dir) : dir[i].modTime = ZeroTime

\* C18 as stated: the jobs are sent in ascending order of relPath compared
\* as plain strings, byte by byte.
C18_SentInStringOrder ==
  \A i \in 1..Len(fileList), j \in 1..Len(fileList) :
    i < j => BytesLess(PathBytes(SlashTokens(PathOf(fileList[i].fid))),
                       PathBytes(SlashTokens(PathOf(fileList[j].fid))))

\* C18 amended: the jobs are sent in the order filepath.Walk met them, which
\* is ascending order of the paths compared segment by segment: the jobs
\* sent so far are the first ones of that order.
C18_SentInWalkOrder ==
  /\ \A i \in 1..Len(fileList), j \in 1..Len(fileList) :
       i < j => WalkLess(PathOf(fileList[i].fid), PathOf(fileList[j].fid))
  /\ \A i \in 1..Len(fileList) : recvCount[i] = IF i <= sent THEN 1 ELSE 0

C18_Witness ==
  /\ DirMode
  /\ Len(fileList) = 2 /\ sent = 2
  /\ fileList[1].relPath = "a/z.log"
  /\ fileList[2].relPath = "a.txt"

====
